---- MODULE Spec2Model ----
(***************************************************************************)
(* ActivityCalendar: the data-conditioning pass (get data), the layout     *)
(* (get layout), the cell threshold and the column lookup, in the two      *)
(* revisions of the class the sources hold:                                *)
(*   "sized"  - README.md lines 90-622: artboard width/height are given,   *)
(*              the cell size is derived, update() exists, the week keys   *)
(*              are the keys of the stepped dates;                         *)
(*   "anchor" - unnamed/part_000: the cell size is given, the artboard is  *)
(*              derived, a week holding a first-of-month is keyed by it.   *)
(* Dates are day numbers (days since 1970-01-01); a moment format is       *)
(* modelled by the calendar fields it prints.  null and the empty          *)
(* collection are one value (<<>>): every read of the nullable fields in   *)
(* the sources coalesces them (x || [], x ? x : [], if (x) iterate).       *)
(***************************************************************************)
EXTENDS Integers, Sequences, FiniteSets, TLC

VARIABLES
    variant,              \* which revision of the class the instance is
    dataSource,           \* this.dataSource: sequence of [key, records]
    activityTypes,        \* this.activityTypes: sequence of keys
    dateStart,            \* this.dateStart (day number)
    dateEnd,              \* this.dateEnd (day number)
    width,                \* this.width
    height,               \* this.height
    cellSize,             \* this.cellSize ("anchor"; 0 in "sized")
    dataAggregateDays,    \* this.dataAggregateDays: insertion-ordered map of maps
    dataCells,            \* this.dataCells: sequence of <<date, count, type>>
    weekIndicies,         \* this.weekIndicies: sequence of <<year, week>> keys
    years,                \* this.years ("sized")
    weekdays,             \* this.weekdays
    months,               \* this.months
    paddingDaysOfWeek,    \* this.paddingDaysOfWeek ("anchor") / paddingSide ("sized")
    paddingMonthsOfYear,  \* this.paddingMonthsOfYear ("anchor") / paddingTop ("sized")
    cellHeight,           \* this.cellHeight ("sized"), a fraction [num, den]
    cellWidth,            \* this.cellWidth ("sized"), a fraction [num, den]
    container,            \* TRUE once render() has attached the instance to a DOM node
    cellThreshold,        \* the data-cell-threshold attribute of each drawn cell
    cellPath,             \* the d attribute of each drawn cell: column, row, corners
    monthX,               \* the x attribute of each month annotation, with its lookup
    extracted,            \* how the latest call ended, if it was extractActivity(key)
    viewBox,              \* width and height in the artboard's viewBox attribute
    pass                  \* conditioning passes run on the present input, saturating

vars == << variant, dataSource, activityTypes, dateStart, dateEnd, width, height,
           cellSize, dataAggregateDays, dataCells, weekIndicies, years, weekdays,
           months, paddingDaysOfWeek, paddingMonthsOfYear, cellHeight, cellWidth,
           container, cellThreshold, cellPath, monthX, extracted, viewBox, pass >>

(***************************************************************************)
(* Calendar arithmetic of the date library (moment): parsing and printing  *)
(* "YYYY-MM-DD", ISO weekday, ISO week, adding weeks and months.           *)
(***************************************************************************)

\* moment("YYYY-MM-DD"): the day number of a civil date (proleptic Gregorian).
DaysFromCivil(y, m, d) ==
    LET yy  == IF m <= 2 THEN y - 1 ELSE y
        era == yy \div 400
        yoe == yy - era * 400
        mp  == IF m > 2 THEN m - 3 ELSE m + 9
        doy == (153 * mp + 2) \div 5 + d - 1
        doe == yoe * 365 + yoe \div 4 - yoe \div 100 + doy
    IN  era * 146097 + doe - 719468

\* format("YYYY-MM-DD"): the civil fields of a day number.
CivilFromDays(z) ==
    LET z1  == z + 719468
        era == z1 \div 146097
        doe == z1 - era * 146097
        yoe == (doe - doe \div 1460 + doe \div 36524 - doe \div 146096) \div 365
        doy == doe - (365 * yoe + yoe \div 4 - yoe \div 100)
        mp  == (5 * doy + 2) \div 153
        d   == doy - (153 * mp + 2) \div 5 + 1
        m   == IF mp < 10 THEN mp + 3 ELSE mp - 9
        y   == yoe + era * 400 + (IF m <= 2 THEN 1 ELSE 0)
    IN  [year |-> y, month |-> m, day |-> d]

\* format("YYYY"): the calendar year.
Year(z) == CivilFromDays(z).year

\* isoWeekday(): Monday = 1 .. Sunday = 7 (1970-01-01 was a Thursday).
IsoWeekday(z) == ((z + 3) % 7) + 1

\* startOf("isoWeek"): the Monday of the date's week.
StartOfIsoWeek(z) == z - (IsoWeekday(z) - 1)

\* isoWeek() / format("W"): the week of the ISO year that holds the week's Thursday.
IsoWeek(z) ==
    LET thursday == StartOfIsoWeek(z) + 3
    IN  (thursday - DaysFromCivil(Year(thursday), 1, 1)) \div 7 + 1

\* moment(s) of a string that is no date: an invalid moment.  Every format
\* of it prints "Invalid date", its getters give NaN.
InvalidDate == -1

\* format("YYYY-W"): the CALENDAR year with the unpadded ISO week; of an
\* invalid moment "Invalid date", written << 0, 0 >>, the key of no week.
YearWeek(z) ==
    IF z = InvalidDate THEN << 0, 0 >> ELSE << Year(z), IsoWeek(z) >>

\* daysInMonth()
DaysInMonth(y, m) ==
    LET ny == IF m = 12 THEN y + 1 ELSE y
        nm == IF m = 12 THEN 1 ELSE m + 1
    IN  DaysFromCivil(ny, nm, 1) - DaysFromCivil(y, m, 1)

\* add(1, "month"): next month, the day of month clamped to the month's length.
AddMonth(z) ==
    LET c  == CivilFromDays(z)
        ny == IF c.month = 12 THEN c.year + 1 ELSE c.year
        nm == IF c.month = 12 THEN 1 ELSE c.month + 1
        dim == DaysInMonth(ny, nm)
    IN  DaysFromCivil(ny, nm, IF c.day < dim THEN c.day ELSE dim)

\* diff(other, "week"): whole weeks, truncated toward zero.
DiffWeeks(end, start) ==
    IF end >= start THEN (end - start) \div 7 ELSE -((start - end) \div 7)

(***************************************************************************)
(* Sequence helpers standing for the array methods the class uses.         *)
(***************************************************************************)

\* Array.prototype.indexOf: the first position holding x, zero-based, -1
\* when absent.
IndexOf(s, x) ==
    IF \E i \in 1..Len(s) : s[i] = x
    THEN (CHOOSE i \in 1..Len(s) :
             s[i] = x /\ \A j \in 1..(i - 1) : s[j] # x) - 1
    ELSE -1

\* Array.prototype.flat over a sequence of sequences.
RECURSIVE Flat(_)
Flat(ss) == IF ss = << >> THEN << >> ELSE Head(ss) \o Flat(Tail(ss))

\* The elements of s in first-appearance order, each once (the key order
\* of a Map or Set filled from s).
Distinct(s) ==
    LET firsts == {i \in 1..Len(s) : \A j \in 1..(i - 1) : s[j] # s[i]}
    IN  [k \in 1..Cardinality(firsts) |->
            s[CHOOSE i \in firsts : Cardinality({j \in firsts : j < i}) = k - 1]]

(***************************************************************************)
(* get data: merge, rollup, week keys, months, cells.                      *)
(***************************************************************************)

\* The guard of get data: a series set with at least one key.
ValidSource(source) == Len(source) > 0

\* for (const key in dataSource) merged = merged.concat(dataSource[key])
Merged(source) == Flat([i \in 1..Len(source) |-> source[i].records])

\* rollup(merged, v => v.length, d => format(d.date), d => d.type):
\* dates in first-appearance order, under each date its types in
\* first-appearance order, each with the number of its records.
Rollup(merged) ==
    LET dates == Distinct([i \in 1..Len(merged) |-> merged[i].date])
        typesOf(d) == Distinct([i \in 1..Len(SelectSeq(merged, LAMBDA r : r.date = d))
                                   |-> SelectSeq(merged, LAMBDA r : r.date = d)[i].type])
        count(d, t) == Len(SelectSeq(merged, LAMBDA r : r.date = d /\ r.type = t))
    IN  [i \in 1..Len(dates) |->
            [date  |-> dates[i],
             types |-> [j \in 1..Len(typesOf(dates[i])) |->
                          [type  |-> typesOf(dates[i])[j],
                           count |-> count(dates[i], typesOf(dates[i])[j])]]]]

\* isoDaysofWeek(currentDate): from the Monday of the date's week up to, not
\* including, currentDate + 6 days.
IsoDaysofWeek(currentDate) ==
    LET weekStart == StartOfIsoWeek(currentDate)
        weekEnd   == currentDate + 6
    IN  IF currentDate = InvalidDate THEN << >>
        ELSE [i \in 1..(weekEnd - weekStart) |-> weekStart + (i - 1)]

\* The key pushed for one stepped date.
\* "sized": the key of the stepped date.
\* "anchor": the key of the first first-of-month day of isoDaysofWeek, if any.
WeekKey(v, date) ==
    IF v = "anchor"
    THEN LET firstOfMonths == SelectSeq(IsoDaysofWeek(date),
                                        LAMBDA d : CivilFromDays(d).day = 1)
         IN  IF Len(firstOfMonths) > 0 THEN YearWeek(firstOfMonths[1])
             ELSE YearWeek(date)
    ELSE YearWeek(date)

\* The cursor of the week loop after i steps of add(1, "week").
WeekCursor(from, i) == from + 7 * i

\* Weeks with the loop guard dateStart <= dateEnd: a range of whole weeks
\* gets a key for the week that starts at dateEnd.
WeeksThroughEnd(v, from, to) ==
    LET steps == Cardinality({i \in 0..(to - from) : WeekCursor(from, i) <= to})
    IN  [i \in 1..steps |-> WeekKey(v, WeekCursor(from, i - 1))]

\* while (dateStart < dateEnd) { weeks.push(key); dateStart.add(1, "week") }
\* The loop body runs once for every cursor that passes the guard.
Weeks(v, from, to) ==
    LET steps == Cardinality({i \in 0..(to - from) : WeekCursor(from, i) < to})
    IN  [i \in 1..steps |-> WeekKey(v, WeekCursor(from, i - 1))]

\* while (dateStart < dateEnd) { months.push(date); dateStart.add(1, "month") }
RECURSIVE Months(_, _)
Months(from, to) ==
    IF from < to THEN << from >> \o Months(AddMonth(from), to)
    ELSE << >>

\* [...new Set(weekIndicies.map(d => d.split("-")[0]))]
Years(weeks) == Distinct([i \in 1..Len(weeks) |-> weeks[i][1]])

\* moment.weekdays() rotated so that Monday comes first.
Weekdays == << "Monday", "Tuesday", "Wednesday", "Thursday", "Friday",
               "Saturday", "Sunday" >>

\* extractActivity(key): the entries of the aggregate that hold the key, as
\* <<date, count, key>>, in the aggregate's order.
ExtractActivity(aggregate, key) ==
    LET has(e)   == \E j \in 1..Len(e.types) : e.types[j].type = key
        count(e) == LET j == CHOOSE j \in 1..Len(e.types) : e.types[j].type = key
                    IN  e.types[j].count
        hits     == SelectSeq(aggregate, has)
    IN  [i \in 1..Len(hits) |-> << hits[i].date, count(hits[i]), key >>]

\* this.activityTypes.map(d => this.extractActivity(d)).flat()
DataCells(types, aggregate) ==
    Flat([i \in 1..Len(types) |-> ExtractActivity(aggregate, types[i])])

\* FreshWeeks pushing onto the field instead of a fresh array.
KeepWeeks(previous) == previous

\* let weeks = []: the accumulator of a pass starts empty, whatever the
\* field held before.
FreshWeeks(previous) == << >>

(***************************************************************************)
(* constructThreshold: scaleQuantize().domain(extent(values)).range([1,2,3])*)
(***************************************************************************)

\* (this.dataCells || []).map(d => d[1])
CellValues(cells) == [i \in 1..Len(cells) |-> cells[i][2]]

\* extent(values): << min, max >>; of an empty list [undefined, undefined],
\* which the scale's domain() coerces to [NaN, NaN], written << >>.
Extent(values) ==
    LET vs == {values[i] : i \in 1..Len(values)}
    IN  IF values = << >> THEN << >>
        ELSE << CHOOSE a \in vs : \A b \in vs : a <= b,
                CHOOSE a \in vs : \A b \in vs : b <= a >>

\* The quantize scale's cut points for a range of n + 1 = 3 values, times 3
\* (the scale divides by n + 1 = 3): ((i + 1) * x1 - (i - n) * x0), i = 0, 1.
QuantizeCuts(domain) ==
    [i \in 1..2 |-> i * domain[2] - ((i - 1) - 2) * domain[1]]

\* BisectRight with ties going left: the number of cuts < x.
RECURSIVE BisectLeft(_, _, _, _)
BisectLeft(cuts, x, lo, hi) ==
    IF lo < hi
    THEN LET mid == (lo + hi) \div 2
         IN  IF cuts[mid + 1] >= x THEN BisectLeft(cuts, x, lo, mid)
             ELSE BisectLeft(cuts, x, mid + 1, hi)
    ELSE lo

\* bisectRight(cuts, x, 0, n): binary search for the number of cuts <= x.
RECURSIVE BisectRight(_, _, _, _)
BisectRight(cuts, x, lo, hi) ==
    IF lo < hi
    THEN LET mid == (lo + hi) \div 2
         IN  IF cuts[mid + 1] > x THEN BisectRight(cuts, x, lo, mid)
             ELSE BisectRight(cuts, x, mid + 1, hi)
    ELSE lo

\* ScaleQuantize with the range reversed: [3, 2, 1].
ScaleQuantizeDescending(domain, x) ==
    << 3, 2, 1 >>[BisectRight(QuantizeCuts(domain), 3 * x, 0, 2) + 1]

\* scale(x) = range[bisect(cuts, x, 0, n)] with range [1, 2, 3]; x and the
\* cuts are compared times 3, which is exact for integer counts.
ScaleQuantize(domain, x) ==
    << 1, 2, 3 >>[BisectRight(QuantizeCuts(domain), 3 * x, 0, 2) + 1]

\* The bisect of the scale differs between the d3-array majors the import
\* may resolve to once the cuts are NaN (the domain of an empty list):
\* 2 tests compare(cut, x) > 0 and ends right of every cut, 3 tests
\* compare(cut, x) <= 0 and ends left of every cut.
BisectBuilds == {2, 3}
NaNBisect(build) == IF build = 2 THEN 2 ELSE 0

\* The scale constructThreshold returns, applied to a count x.
Threshold(build, domain, x) ==
    IF domain = << >> THEN << 1, 2, 3 >>[NaNBisect(build) + 1]
    ELSE ScaleQuantize(domain, x)

\* data-cell-threshold of every cell: threshold(d[1]).
CellThresholds(cells) ==
    [i \in 1..Len(cells) |-> ScaleQuantize(Extent(CellValues(cells)), cells[i][2])]

(***************************************************************************)
(* configureCellShapes: the column of a cell's date.                       *)
(***************************************************************************)

\* columnWeek.
\* "sized": indexOf(format(date, "YYYY-W")).
\* "anchor": the key of the first 1 January in isoDaysofWeek(date), if any.
ColumnWeek(v, weeks, date) ==
    IF v = "anchor"
    THEN LET firstOfYears == SelectSeq(IsoDaysofWeek(date),
                                LAMBDA d : CivilFromDays(d).month = 1
                                           /\ CivilFromDays(d).day = 1)
         IN  IndexOf(weeks, IF Len(firstOfYears) > 0
                            THEN YearWeek(firstOfYears[1])
                            ELSE YearWeek(date))
    ELSE IndexOf(weeks, YearWeek(date))

\* The triangle that always starts at the top-left corner, whatever the index.
UpperLeftCorners(i) ==
    << << "left", "top" >>, << "right", "top" >>, << "left", "bottom" >> >>

\* moveTo(left, i == 0 ? top : bottom); lineTo(right, i == 0 ? top : bottom);
\* lineTo(i == 0 ? left : right, i == 0 ? bottom : top); closePath()
\* for i = activityTypes.indexOf(type).
CellCorners(i) ==
    << << "left", IF i = 0 THEN "top" ELSE "bottom" >>,
       << "right", IF i = 0 THEN "top" ELSE "bottom" >>,
       << IF i = 0 THEN "left" ELSE "right", IF i = 0 THEN "bottom" ELSE "top" >> >>

\* The d attribute of every cell: the column and row its left and top are
\* multiples of (row -1: isoWeekday() of an invalid moment is NaN), and the
\* corners of its path.
CellPaths(v, types, weeks, cells) ==
    [k \in 1..Len(cells) |->
        [column  |-> ColumnWeek(v, weeks, cells[k][1]),
         row     |-> IF cells[k][1] = InvalidDate THEN -1
                     ELSE IsoWeekday(cells[k][1]) - 1,
         corners |-> CellCorners(IndexOf(types, cells[k][3]))]]

(***************************************************************************)
(* get layout                                                              *)
(***************************************************************************)

\* this.artboardUnit outside a browser window.
ArtboardUnit == 16

\* configurationDimension / configurationLayout defaults.
DefaultWidth == 600
DefaultHeight == 600
DefaultCellSize == 10

\* A quotient kept as numerator and denominator (den = 0: Infinity or NaN).
Fraction(n, d) == [num |-> n, den |-> d]

\* "anchor" layout: the artboard from the cell size and the whole weeks.
AnchorHeight(size) == size * 7 + size
AnchorWidth(size, start, end) == size * DiffWeeks(end, start) + size

\* let left = columnWeek * this.cellWidth ("anchor": * this.cellSize), for a
\* cell width kept as a fraction.
Left(column, unit) == Fraction(column * unit.num, unit.den)

\* The key a month annotation is looked up under.  "anchor": format("YYYY-W").
\* "sized": the same, re-derived for ISO week 1 and ISO week 53 when the week
\* keys hold more than one year.
MonthKey(v, yrs, d) ==
    LET isoWeek     == IsoWeek(d)
        isMultiYear == Len(yrs) > 1
    IN  IF v = "sized" /\ isMultiYear /\ (isoWeek = 53 \/ isoWeek = 1)
        THEN IF isoWeek = 1 THEN << Year(d), 1 >>
             ELSE << Year(d) - 1, isoWeek >>
        ELSE YearWeek(d)

\* The x attribute of the annotation of month d, with the index it came from.
\* "sized" answers a miss with artboardUnit; "anchor" multiplies the -1.
MonthX(v, weeks, yrs, unit, d) ==
    LET weekIndex == IndexOf(weeks, MonthKey(v, yrs, d))
    IN  [weekIndex |-> weekIndex,
         x |-> IF v = "sized" /\ weekIndex = -1 THEN Fraction(ArtboardUnit, 1)
               ELSE Left(weekIndex, unit)]

\* configureAnnotationMonths: one x per entry of this.months.
MonthAnnotations(v, weeks, yrs, unit, ms) ==
    [i \in 1..Len(ms) |-> MonthX(v, weeks, yrs, unit, ms[i])]

\* "sized" layout: the cell size from the artboard, weekdays and week keys.
SizedCellHeight(h, days) == Fraction(h - ArtboardUnit * 2, Len(days))
SizedCellWidth(w, weeks) == Fraction(w - ArtboardUnit * 2, Len(weeks))

(***************************************************************************)
(* Inputs: series sets and date ranges the caller may pass.                *)
(***************************************************************************)

MaxRecords == 2        \* records in a series set of the general family
MaxUpdateRecords == 1  \* records in a series set passed to update()
MaxCountRecords == 7   \* records in a series set of the counting family
MaxSpan == 15          \* days in a short range
MaxLongExtra == 2      \* days beyond 52 weeks in a long range
MaxPass == 2           \* passes on one input that are told apart

Keys == {"work", "play"}

\* Series names and record types are both free strings: a record's type
\* need not be the key of the series that holds it.
Types == {"work", "play"}

Monday24 == DaysFromCivil(2018, 12, 24)    \* a Monday, ISO week 52 of 2018
Monday31 == DaysFromCivil(2018, 12, 31)    \* a Monday, ISO week 1 of 2019
Wednesday2 == DaysFromCivil(2019, 1, 2)    \* ISO week 1 of 2019
NewYear18 == DaysFromCivil(2018, 1, 1)     \* a Monday, ISO week 1 of 2018

RecordDates == {Monday31, Wednesday2}

SeqsUpTo(S, n) == UNION {[1..k -> S] : k \in 0..n}

RECURSIVE TotalRecords(_)
TotalRecords(source) ==
    IF source = << >> THEN 0
    ELSE Len(Head(source).records) + TotalRecords(Tail(source))

\* Every series set over the keys (each key at most once, in any order)
\* that holds at most n records drawn from recs.
SeriesSets(keys, recs, n) ==
    {s \in UNION {[1..k -> [key : keys, records : SeqsUpTo(recs, n)]]
                    : k \in 0..Cardinality(keys)} :
        /\ \A i, j \in 1..Len(s) : i # j => s[i].key # s[j].key
        /\ TotalRecords(s) <= n}

DataSets == SeriesSets(Keys, [date : RecordDates, type : Types], MaxRecords)

\* update() is handed nothing, or one non-empty series under either key.
UpdateSets ==
    {s \in SeriesSets(Keys, {[date |-> Monday31, type |-> "play"]},
                      MaxUpdateRecords) :
        Len(s) <= 1 /\ \A i \in 1..Len(s) : s[i].records # << >>}

\* Series "work" with a records on one day and b on another, series "play"
\* with c records on the first day: the counts of the cells are a, b and c.
CountSet(a, b, c) ==
    << [key |-> "work",
        records |-> [i \in 1..(a + b) |->
                       [date |-> IF i <= a THEN Monday31 ELSE Wednesday2,
                        type |-> "work"]]],
       [key |-> "play",
        records |-> [i \in 1..c |-> [date |-> Monday31, type |-> "play"]]] >>

CountSets ==
    {CountSet(t[1], t[2], t[3]) :
        t \in {u \in (0..MaxCountRecords) \X (0..MaxCountRecords)
                       \X (0..MaxCountRecords) :
                 u[1] + u[2] + u[3] <= MaxCountRecords}}

RangeSets == {<< >>,
              << [key |-> "work",
                  records |-> << [date |-> Monday31, type |-> "work"] >>] >>}

ShortRanges == {<< Monday24 + k, Monday24 + k + n >> : k \in 0..6, n \in 1..MaxSpan}

LongRanges == {<< NewYear18 + k, NewYear18 + k + 52 * 7 + n >>
                 : k \in 0..1, n \in 0..MaxLongExtra}

\* Ranges that hold no date: dateStart = dateEnd and dateStart > dateEnd.
EmptyRanges == {<< Monday31, Monday31 >>, << Monday31 + 7, Monday31 >>}

\* A range of exactly four weeks.
FourWeekRange == << Monday24, Monday24 + 4 * 7 >>

\* Ranges over a turn of the year whose month list holds a date of ISO week
\* 1 (2019-01-03) or of ISO week 53 (2020-12-30).
YearEndRanges ==
    {<< DaysFromCivil(2018, 12, 3), DaysFromCivil(2019, 1, 14) >>,
     << DaysFromCivil(2020, 11, 30), DaysFromCivil(2021, 1, 11) >>}

\* A series with one record whose date is no date and one dated record.
InvalidSets ==
    {<< [key |-> "work",
         records |-> << [date |-> InvalidDate, type |-> "work"],
                        [date |-> Monday31, type |-> "work"] >>] >>}

Inputs ==
    ((DataSets \cup CountSets \cup InvalidSets) \X {<< Monday24, Monday24 + 14 >>})
    \cup (RangeSets \X (ShortRanges \cup LongRanges \cup {FourWeekRange}
                                   \cup EmptyRanges \cup YearEndRanges))

\* The width and height update() may be given.
TestWidth == 300
TestHeight == 500
Sizes == {<< DefaultWidth, DefaultHeight >>, << TestWidth, TestHeight >>}

\* Object.keys(data)
KeysOf(source) == [i \in 1..Len(source) |-> source[i].key]

NoFraction == Fraction(0, 0)

\* How a call of extractActivity ends: with a returned array.
Returned(value) == [outcome |-> "returned", value |-> value]

\* The latest call was not extractActivity.
NoCall == [outcome |-> "none", value |-> << >>]

(***************************************************************************)
(* The instance after construction.                                        *)
(***************************************************************************)
Init ==
    /\ variant \in {"sized", "anchor"}
    /\ \E input \in Inputs :
          /\ dataSource = input[1]
          /\ dateStart = input[2][1]
          /\ dateEnd = input[2][2]
    /\ activityTypes = KeysOf(dataSource)
    /\ width = DefaultWidth
    /\ height = DefaultHeight
    /\ cellSize = IF variant = "anchor" THEN DefaultCellSize ELSE 0
    /\ dataAggregateDays = << >>
    /\ dataCells = << >>
    /\ weekIndicies = << >>
    /\ years = << >>
    /\ weekdays = << >>
    /\ months = << >>
    /\ paddingDaysOfWeek = 0
    /\ paddingMonthsOfYear = 0
    /\ cellHeight = NoFraction
    /\ cellWidth = NoFraction
    /\ container = FALSE
    /\ cellThreshold = << >>
    /\ cellPath = << >>
    /\ monthX = << >>
    /\ extracted = NoCall
    /\ viewBox = << >>
    /\ pass = 0

(***************************************************************************)
(* get data, on the series set the instance holds after the step.          *)
(***************************************************************************)
Data(source) ==
    IF ValidSource(source)
    THEN /\ dataAggregateDays' = Rollup(Merged(source))
         /\ weekIndicies' = FreshWeeks(weekIndicies)
                               \o Weeks(variant, dateStart, dateEnd)
         /\ years' = IF variant = "sized" THEN Years(weekIndicies') ELSE years
         /\ weekdays' = Weekdays
         /\ months' = Months(dateStart, dateEnd)
         /\ dataCells' = DataCells(activityTypes, dataAggregateDays')
    ELSE UNCHANGED << dataAggregateDays, weekIndicies, years, weekdays,
                      months, dataCells >>

(***************************************************************************)
(* get layout.  "anchor" runs it before get data and derives the artboard; *)
(* "sized" runs it after get data, on a given artboard w x h, and derives  *)
(* the cell size from the week keys and weekdays of the pass.              *)
(***************************************************************************)
Layout(w, h) ==
    IF variant = "anchor"
    THEN /\ paddingDaysOfWeek' = cellSize
         /\ paddingMonthsOfYear' = cellSize
         /\ height' = AnchorHeight(cellSize)
         /\ width' = AnchorWidth(cellSize, dateStart, dateEnd)
         /\ UNCHANGED << cellHeight, cellWidth >>
    ELSE /\ paddingMonthsOfYear' = ArtboardUnit * 2
         /\ paddingDaysOfWeek' = ArtboardUnit * 2
         /\ cellHeight' = SizedCellHeight(h, weekdays')
         /\ cellWidth' = SizedCellWidth(w, weekIndicies')
         /\ width' = w
         /\ height' = h

\* generateArtboard (the viewBox from the width and height the layout
\* left), generateAnnotations (the x of each month annotation),
\* generateCellShapes and configureCellShapes (the threshold and path
\* attributes, one per cell of the pass).
Draw ==
    /\ viewBox' = << width', height' >>
    /\ cellThreshold' = CellThresholds(dataCells')
    /\ cellPath' = CellPaths(variant, activityTypes, weekIndicies', dataCells')
    /\ monthX' = MonthAnnotations(variant, weekIndicies', years',
                                  IF variant = "anchor" THEN Fraction(cellSize, 1)
                                  ELSE cellWidth',
                                  months')

NextPass(same) ==
    IF same THEN (IF pass < MaxPass THEN pass + 1 ELSE pass) ELSE 1

(***************************************************************************)
(* render(domNode)                                                         *)
(***************************************************************************)
Render ==
    /\ Data(dataSource)
    /\ Layout(width, height)
    /\ Draw
    /\ container' = TRUE
    /\ pass' = NextPass(TRUE)
    /\ extracted' = NoCall
    /\ UNCHANGED << variant, dataSource, activityTypes, dateStart, dateEnd,
                    cellSize >>

(***************************************************************************)
(* update(data, width, height): "sized" only.  Before render() there is no *)
(* container: the pass and the layout run, then generateArtboard throws on *)
(* the null container and nothing is drawn.                                *)
(***************************************************************************)
Update(data, w, h) ==
    /\ variant = "sized"
    /\ dataSource' = data
    /\ Data(data)
    /\ Layout(w, h)
    /\ IF container THEN Draw
       ELSE UNCHANGED << cellThreshold, cellPath, monthX, viewBox >>
    /\ pass' = NextPass(data = dataSource /\ w = width /\ h = height)
    /\ extracted' = NoCall
    /\ UNCHANGED << variant, activityTypes, dateStart, dateEnd, cellSize,
                    container >>

(***************************************************************************)
(* extractActivity(key), called by the client: it has no throw statement,  *)
(* and on a null dataAggregateDays it returns the empty result.            *)
(***************************************************************************)
Extract(key) ==
    /\ extracted' = Returned(ExtractActivity(dataAggregateDays, key))
    /\ UNCHANGED << variant, dataSource, activityTypes, dateStart, dateEnd, width,
                    height, cellSize, dataAggregateDays, dataCells, weekIndicies,
                    years, weekdays, months, paddingDaysOfWeek,
                    paddingMonthsOfYear, cellHeight, cellWidth, container,
                    cellThreshold, cellPath, monthX, viewBox, pass >>

Next ==
    \/ Render
    \/ \E data \in UpdateSets, size \in Sizes : Update(data, size[1], size[2])
    \/ \E key \in Keys : Extract(key)

Spec == Init /\ [][Next]_vars

(***************************************************************************)
(* Properties.                                                             *)
(***************************************************************************)

\* A conditioning pass has run on the series set the instance now holds,
\* and that series set has at least one key (the pass did its work).
Conditioned == pass >= 1 /\ ValidSource(dataSource)

\* Key a = <<year, week>> denotes an earlier week than key b.
KeyBefore(a, b) == a[1] < b[1] \/ (a[1] = b[1] /\ a[2] < b[2])

\* C1: for dateStart < dateEnd and a non-empty series set, after
\* conditioning the week keys hold no duplicate and every key denotes a
\* later week than the key before it.
C1_WeekKeysIncreasing ==
    (Conditioned /\ dateStart < dateEnd) =>
        \A i \in 1..(Len(weekIndicies) - 1) :
            KeyBefore(weekIndicies[i], weekIndicies[i + 1])

\* C2: for dateStart < dateEnd and a non-empty series set, after
\* conditioning the number of week keys is ceil(days in range / 7).
C2_WeekCount ==
    (Conditioned /\ dateStart < dateEnd) =>
        Len(weekIndicies) = (dateEnd - dateStart + 6) \div 7

\* C2 witness: a conditioned range ending inside a week counts that
\* partial week as a column.
C2_Witness ==
    /\ Conditioned
    /\ (dateEnd - dateStart) % 7 # 0
    /\ Len(weekIndicies) = 3

\* C3: any two dates d1 < d2 of the range whose column lookup succeeds
\* have column(d1) <= column(d2).
C3_ColumnOrder ==
    (container /\ Conditioned) =>
        LET found == {p \in {<< d, ColumnWeek(variant, weekIndicies, d) >>
                                : d \in dateStart..(dateEnd - 1)} : p[2] >= 0}
        IN  \A p, q \in found : p[1] < q[1] => p[2] <= q[2]

\* The raw records of a series set dated d.
RecordsOn(source, d) == Len(SelectSeq(Merged(source), LAMBDA r : r.date = d))

RECURSIVE SumCounts(_)
SumCounts(types) ==
    IF types = << >> THEN 0 ELSE Head(types).count + SumCounts(Tail(types))

\* The sum over all types of DayCount[d][type].
DayTotal(aggregate, d) ==
    LET entries == SelectSeq(aggregate, LAMBDA e : e.date = d)
    IN  IF entries = << >> THEN 0 ELSE SumCounts(entries[1].types)

\* The (date, count, type) tuples of DayCount, one per (date, type) pair.
DayCountTuples(aggregate) ==
    UNION {{<< aggregate[k].date, aggregate[k].types[j].count, aggregate[k].types[j].type >>
               : j \in 1..Len(aggregate[k].types)} : k \in 1..Len(aggregate)}

\* C4: after conditioning, for every date the sum over all types of
\* DayCount equals the number of raw records of the series set on that date.
C4_CountConservation ==
    (container /\ pass >= 1) =>
        \A d \in RecordDates :
            DayTotal(dataAggregateDays, d) = RecordsOn(dataSource, d)

\* C5: after conditioning, the Cell list holds exactly one tuple for every
\* (date, type) pair of DayCount, carrying its count, and nothing else.
C5_CellsMatchDayCount ==
    (container /\ pass >= 1) =>
        /\ \A t \in DayCountTuples(dataAggregateDays) :
              Cardinality({i \in 1..Len(dataCells) : dataCells[i] = t}) = 1
        /\ \A i \in 1..Len(dataCells) :
              dataCells[i] \in DayCountTuples(dataAggregateDays)

\* C6: a full pass on unchanged input (series set and sizing; the range
\* never changes) after an earlier pass on it leaves the week keys, DayCount
\* and the Cell list as the earlier pass left them.
C6_Idempotent ==
    [][(/\ pass >= 1
        /\ dataSource' = dataSource
        /\ width' = width
        /\ height' = height
        /\ cellSize' = cellSize)
       => (/\ weekIndicies' = weekIndicies
           /\ dataAggregateDays' = dataAggregateDays
           /\ dataCells' = dataCells)]_vars

\* C6 witness: a second pass has run on one input that yields week keys,
\* DayCount entries and cells.
C6_Witness ==
    /\ pass = 2
    /\ container
    /\ ValidSource(dataSource)
    /\ Len(weekIndicies) >= 2
    /\ dataCells # << >>

\* C7: once the instance is rendered and holds an empty or absent series
\* set, DayCount, the Cell list, the week keys and the month list are empty.
C7_NoStaleState ==
    (container /\ pass >= 1 /\ ~ValidSource(dataSource)) =>
        /\ dataAggregateDays = << >>
        /\ dataCells = << >>
        /\ weekIndicies = << >>
        /\ months = << >>

\* The keys of a series set.
KeySet(source) == {source[i].key : i \in 1..Len(source)}

\* Every record's type is the key of the series that holds it.
WellKeyed(source) ==
    \A i \in 1..Len(source) :
        \A j \in 1..Len(source[i].records) : source[i].records[j].type = source[i].key

\* C8: after update() with a series set whose keys differ from the
\* constructor's (still held by activityTypes), every (date, type) of the
\* new data has a Cell and every Cell is selected by a key of the new data.
C8_CellsFollowUpdate ==
    (container /\ Conditioned /\ WellKeyed(dataSource)
               /\ KeysOf(dataSource) # activityTypes) =>
        /\ \A r \in {Merged(dataSource)[i] : i \in 1..Len(Merged(dataSource))} :
              \E i \in 1..Len(dataCells) :
                 dataCells[i][1] = r.date /\ dataCells[i][3] = r.type
        /\ \A i \in 1..Len(dataCells) : dataCells[i][3] \in KeySet(dataSource)

\* The domain of the threshold built over the current cells.
CellDomain == Extent(CellValues(dataCells))

\* C9: for the quantize threshold built over the current Cell counts, for
\* all counts a < b (inside or outside the domain), bucket(a) <= bucket(b);
\* so the drawn thresholds of two cells are ordered as their counts are.
C9_ThresholdMonotone ==
    (container /\ dataCells # << >>) =>
        /\ \A a, b \in 0..(MaxCountRecords + 1) :
              a < b => ScaleQuantize(CellDomain, a) <= ScaleQuantize(CellDomain, b)
        /\ \A i, j \in 1..Len(dataCells) :
              dataCells[i][2] < dataCells[j][2] => cellThreshold[i] <= cellThreshold[j]

\* C9 witness: two drawn cells with different counts in different buckets.
C9_Witness ==
    /\ container
    /\ \E i, j \in 1..Len(dataCells) :
          dataCells[i][2] < dataCells[j][2] /\ cellThreshold[i] < cellThreshold[j]

\* Three equal-width buckets over [min, max], a boundary in the higher one.
EqualWidthBucket(min, max, x) ==
    IF 3 * x < 2 * min + max THEN 1
    ELSE IF 3 * x >= min + 2 * max THEN 3
    ELSE 2

\* C10: with min < max the smallest and largest count over all cells, the
\* threshold maps each count x in [min, max] to bucket 1 if 3x < 2min + max,
\* to 3 if 3x >= min + 2max, to 2 otherwise; every drawn threshold is that
\* bucket and one of 1, 2, 3.
C10_EqualWidthBuckets ==
    (container /\ dataCells # << >> /\ CellDomain[1] < CellDomain[2]) =>
        /\ \A x \in CellDomain[1]..CellDomain[2] :
              ScaleQuantize(CellDomain, x)
                  = EqualWidthBucket(CellDomain[1], CellDomain[2], x)
        /\ \A i \in 1..Len(dataCells) :
              /\ cellThreshold[i]
                    = EqualWidthBucket(CellDomain[1], CellDomain[2], dataCells[i][2])
              /\ cellThreshold[i] \in {1, 2, 3}

\* C10 witness: a drawn cell whose count lies exactly on the boundary between
\* the first and the second bucket, drawn in the second.
C10_Witness ==
    /\ container
    /\ dataCells # << >>
    /\ CellDomain[1] < CellDomain[2]
    /\ \E i \in 1..Len(dataCells) :
          /\ 3 * dataCells[i][2] = 2 * CellDomain[1] + CellDomain[2]
          /\ cellThreshold[i] = 2


\* The distinct counts of the current cells.
CellCounts == {dataCells[i][2] : i \in 1..Len(dataCells)}

\* C11: when the Cell counts hold fewer than two distinct values (no cell,
\* one cell, all counts equal) the scale constructThreshold returns maps
\* every count to one and the same bucket, whichever bisect the build has.
C11_DegenerateConstant ==
    (container /\ Cardinality(CellCounts) < 2) =>
        \A build \in BisectBuilds :
            \A a, b \in 1..(MaxCountRecords + 1) :
                Threshold(build, CellDomain, a) = Threshold(build, CellDomain, b)

\* The corners of the cell square.
SquareCorners == {"left", "right"} \X {"top", "bottom"}

\* The corner set of a path.
CornerSet(corners) == {corners[k] : k \in 1..Len(corners)}

\* C12: the first type of activityTypes is drawn as the upper-left triangle
\* (top-left, top-right, bottom-left), the second as the lower-right one
\* (bottom-left, bottom-right, top-right); two cells of the first and second
\* type on one date have the same row and column and are different,
\* complementary halves of the square (together all four corners, sharing
\* only the diagonal).
C12_ComplementaryTriangles ==
    container =>
        /\ \A i \in 1..Len(cellPath) :
              /\ IndexOf(activityTypes, dataCells[i][3]) = 0 =>
                    cellPath[i].corners = << << "left", "top" >>, << "right", "top" >>,
                                             << "left", "bottom" >> >>
              /\ IndexOf(activityTypes, dataCells[i][3]) = 1 =>
                    cellPath[i].corners = << << "left", "bottom" >>, << "right", "bottom" >>,
                                             << "right", "top" >> >>
        /\ \A i, j \in 1..Len(cellPath) :
              (dataCells[i][1] = dataCells[j][1] /\ dataCells[i][3] # dataCells[j][3]) =>
                 /\ cellPath[i].column = cellPath[j].column
                 /\ cellPath[i].row = cellPath[j].row
                 /\ cellPath[i].corners # cellPath[j].corners
                 /\ CornerSet(cellPath[i].corners) \cup CornerSet(cellPath[j].corners)
                       = SquareCorners
                 /\ CornerSet(cellPath[i].corners) \cap CornerSet(cellPath[j].corners)
                       = {<< "left", "bottom" >>, << "right", "top" >>}

\* C12 witness: two drawn cells of different types on one date.
C12_Witness ==
    /\ container
    /\ \E i, j \in 1..Len(cellPath) :
          /\ dataCells[i][1] = dataCells[j][1]
          /\ dataCells[i][3] # dataCells[j][3]
          /\ cellPath[i].corners # cellPath[j].corners

\* C13: in the cellSize-driven layout, once layout has run, height is
\* 7 * cellSize + paddingMonthsOfYear and width is cellSize * ceil(weeks in
\* [dateStart, dateEnd)) + paddingDaysOfWeek, a partial week counting as a
\* full one.
C13_CellSizeLayout ==
    (variant = "anchor" /\ pass >= 1 /\ dateStart < dateEnd) =>
        /\ height = 7 * cellSize + paddingMonthsOfYear
        /\ width = cellSize * ((dateEnd - dateStart + 6) \div 7) + paddingDaysOfWeek

\* C14: for fixed dateStart, dateEnd and sizing the layout outputs of a full
\* pass are the same for every series set, the empty one included: they are
\* the outputs of the pass on a non-empty series set, whose week keys and
\* weekdays come from the range alone.
C14_LayoutIgnoresData ==
    (container /\ pass >= 1 /\ dateStart < dateEnd) =>
        IF variant = "sized"
        THEN /\ cellHeight = SizedCellHeight(height, Weekdays)
             /\ cellWidth = SizedCellWidth(width, Weeks(variant, dateStart, dateEnd))
             /\ paddingDaysOfWeek = ArtboardUnit * 2
             /\ paddingMonthsOfYear = ArtboardUnit * 2
        ELSE /\ height = AnchorHeight(cellSize)
             /\ width = AnchorWidth(cellSize, dateStart, dateEnd)
             /\ paddingDaysOfWeek = cellSize
             /\ paddingMonthsOfYear = cellSize

\* C15: with an empty series set and a range of exactly four weeks, after
\* conditioning the week keys number 4 and the Cell list is empty.
C15_EmptySetFourWeeks ==
    (container /\ pass >= 1 /\ dataSource = << >>
               /\ dateEnd - dateStart = 4 * 7) =>
        /\ Len(weekIndicies) = 4
        /\ dataCells = << >>

\* C16: when dateStart >= dateEnd, conditioning a series set leaves the week
\* keys and the Cell list empty, whatever records the set holds.
C16_EmptyRange ==
    (container /\ Conditioned /\ dateStart >= dateEnd) =>
        /\ weekIndicies = << >>
        /\ dataCells = << >>

\* C17: a record whose date cannot be parsed is left out of the aggregation:
\* no DayCount entry and no Cell is keyed by it, while the dated records of
\* the same series set are aggregated.
C17_InvalidDateExcluded ==
    (container /\ Conditioned) =>
        /\ \A k \in 1..Len(dataAggregateDays) :
              dataAggregateDays[k].date # InvalidDate
        /\ \A i \in 1..Len(dataCells) : dataCells[i][1] # InvalidDate

\* C18: extractActivity called before any conditioning pass has run ends
\* with an explicit not-ready error, not with an ordinary returned result.
C18_ExtractNotReady ==
    (pass = 0 /\ extracted # NoCall) => extracted.outcome = "not-ready"

\* C19: the width and height the instance holds (after construction: the
\* constructor's values or the configured defaults) are the artboard's:
\* render leaves both as they were and builds the viewBox from them.
C19_RenderKeepsDimensions ==
    [][Render => (/\ width' = width
                  /\ height' = height
                  /\ viewBox' = << width, height >>)]_vars

\* C20: a date d of [dateStart, dateEnd) whose ISO week is neither the ISO
\* week of dateStart nor that of the last date of the range is found by the
\* column lookup, in a column of [0, columnCount).
C20_MissOnlyAtBoundaries ==
    (container /\ Conditioned /\ dateStart < dateEnd) =>
        LET inner == {d \in dateStart..(dateEnd - 1) :
                        /\ StartOfIsoWeek(d) # StartOfIsoWeek(dateStart)
                        /\ StartOfIsoWeek(d) # StartOfIsoWeek(dateEnd - 1)}
            columns == {ColumnWeek(variant, weekIndicies, d) : d \in inner}
        IN  columns \subseteq 0..(Len(weekIndicies) - 1)

\* The width of one column: cellSize in the cellSize-driven revision,
\* cellWidth in the width/height-driven one.
ColumnUnit == IF variant = "anchor" THEN Fraction(cellSize, 1) ELSE cellWidth

\* C21: every emitted cell polygon of a date of the range lies inside the
\* grid, also when the column lookup of its date gave -1: its left coordinate
\* is a number, is >= 0 and is at most (columnCount - 1) * cell width.
C21_CellsInsideGrid ==
    container =>
        \A i \in 1..Len(cellPath) :
            LET left == Left(cellPath[i].column, ColumnUnit)
                last == Left(Len(weekIndicies) - 1, ColumnUnit)
            IN  dataCells[i][1] \in dateStart..(dateEnd - 1) =>
                   /\ left.den > 0
                   /\ left.num >= 0
                   /\ left.num <= last.num

\* The Monday through the Sunday of the ISO week that holds the date.
MondayToSunday(date) == [i \in 1..7 |-> StartOfIsoWeek(date) + (i - 1)]

\* C22: for every date the class hands to isoDaysofWeek (the stepped dates
\* of the range and the dates of the drawn cells), the result is the 7 dates
\* Monday..Sunday of the date's ISO week, ascending.
C22_IsoDaysAreTheWeek ==
    (container /\ Conditioned) =>
        /\ \A d \in dateStart..(dateEnd - 1) : IsoDaysofWeek(d) = MondayToSunday(d)
        /\ \A i \in 1..Len(dataCells) :
              dataCells[i][1] # InvalidDate =>
                 IsoDaysofWeek(dataCells[i][1]) = MondayToSunday(dataCells[i][1])

\* The first day of the month that holds the date.
FirstOfMonth(z) == LET c == CivilFromDays(z) IN DaysFromCivil(c.year, c.month, 1)

\* C23: after conditioning, months holds the first-of-month date of every
\* month that intersects [dateStart, dateEnd), ascending, without repetition,
\* and nothing else.
C23_MonthsAreFirsts ==
    (container /\ Conditioned) =>
        /\ \A i \in 1..(Len(months) - 1) : months[i] < months[i + 1]
        /\ {months[i] : i \in 1..Len(months)}
              = {FirstOfMonth(d) : d \in dateStart..(dateEnd - 1)}

\* The dates column k (zero-based) stands for: the seven days from its
\* cursor, or the ISO week of its cursor.
InColumn(k, d) ==
    \/ d \in WeekCursor(dateStart, k)..(WeekCursor(dateStart, k) + 6)
    \/ StartOfIsoWeek(d) = StartOfIsoWeek(WeekCursor(dateStart, k))

\* C24: in the month-anchoring variant every month annotation aligns to a
\* column: the key of each date of months is found in weekIndicies (never
\* -1) and the column found is the one whose week contains the date.
C24_MonthsAlign ==
    (container /\ Conditioned /\ variant = "anchor") =>
        \A i \in 1..Len(monthX) :
            /\ monthX[i].weekIndex # -1
            /\ InColumn(monthX[i].weekIndex, months[i])

\* The key the month-annotation lookup is to use for a date of a range that
\* spans more than one year.
MultiYearKey(d) ==
    IF IsoWeek(d) = 1 THEN << Year(d), 1 >>
    ELSE IF IsoWeek(d) = 53 THEN << Year(d) - 1, 53 >>
    ELSE YearWeek(d)

\* C25: in the month-annotation lookup of a range of more than one distinct
\* year, a date of ISO week 1 is looked up under <<its calendar year, 1>> and
\* a date of ISO week 53 under <<its calendar year - 1, 53>>; the key resolves
\* the date to the column of the week that contains it whenever that week is
\* in the column index; an absent key yields the fallback offset, and the
\* position is never negative.
C25_MultiYearMonthLookup ==
    (container /\ Conditioned /\ variant = "sized" /\ Len(years) > 1) =>
        \A i \in 1..Len(monthX) :
            IsoWeek(months[i]) \in {1, 53} =>
               /\ monthX[i].weekIndex = IndexOf(weekIndicies, MultiYearKey(months[i]))
               /\ (\E k \in 0..(Len(weekIndicies) - 1) : InColumn(k, months[i]))
                     => /\ monthX[i].weekIndex # -1
                        /\ InColumn(monthX[i].weekIndex, months[i])
               /\ monthX[i].weekIndex = -1 => monthX[i].x = Fraction(ArtboardUnit, 1)
               /\ monthX[i].x.num >= 0

\* C26: whatever the order of the records in their series and whatever
\* series they sit in, the tuples extractActivity(type) returns are in
\* ascending date order.
C26_ExtractChronological ==
    extracted.outcome = "returned" =>
        \A i, j \in 1..Len(extracted.value) :
            (/\ i < j
             /\ extracted.value[i][1] # InvalidDate
             /\ extracted.value[j][1] # InvalidDate)
                => extracted.value[i][1] < extracted.value[j][1]

\* C27: two drawn cells whose dates lie in the same ISO week (the same
\* Monday-to-Sunday span) have the same column lookup result, also when the
\* week holds 31 December and 1 January.
C27_SameWeekSameColumn ==
    container =>
        \A i, j \in 1..Len(cellPath) :
            (/\ dataCells[i][1] # InvalidDate
             /\ dataCells[j][1] # InvalidDate
             /\ StartOfIsoWeek(dataCells[i][1]) = StartOfIsoWeek(dataCells[j][1]))
                => cellPath[i].column = cellPath[j].column

\* C28: in the cellSize-driven variant, after render every column of the
\* column index fits inside the artboard, for every dateStart < dateEnd:
\* columnCount * cellSize + paddingDaysOfWeek <= width.
C28_ColumnsFitArtboard ==
    (container /\ variant = "anchor" /\ dateStart < dateEnd) =>
        Len(weekIndicies) * cellSize + paddingDaysOfWeek <= width

\* C29: after conditioning a range that holds dates, every Cell has a date
\* inside [dateStart, dateEnd): a record dated outside the range yields no
\* Cell.
C29_CellsInsideRange ==
    (container /\ Conditioned /\ dateStart < dateEnd) =>
        \A i \in 1..Len(dataCells) :
            dataCells[i][1] # InvalidDate =>
                dataCells[i][1] \in dateStart..(dateEnd - 1)

====
